---------------------------- MODULE Spec2Model ----------------------------
(***************************************************************************)
(* A model of lib/sqlalchemy/dialects/mysql/reflection.py: the parser of   *)
(* SHOW CREATE TABLE output (MySQLTableDefinitionParser) and the object it *)
(* fills (ReflectedState).                                                 *)
(*                                                                         *)
(* Text is kept as TLA+ strings; a character is a string of length one.    *)
(* The regular expressions of _prep_regexes are translated node for node   *)
(* into pattern trees, and a backtracking matcher gives them the meaning   *)
(* Python's re module gives them under re.I (leftmost match, alternatives  *)
(* in order, greedy or lazy repetition, named groups, lookahead).          *)
(***************************************************************************)
EXTENDS Integers, Sequences, FiniteSets, TLC

VARIABLES
    parser,       \* what __init__ and _prep_regexes set on the parser
    pc,           \* "idle" between calls of parse, "loop" inside its for loop
    show_create,  \* the arguments of the call of parse
    charset,
    todo,         \* the lines the for loop has still to handle
    state,        \* the ReflectedState the call fills
    warnings,     \* the util.warn calls of the call, in order
    log,          \* the lines handled so far, each with the handler it went to
    returned,     \* what the calls so far returned, in order
    given         \* what the caller built the text from
vars == <<parser, pc, show_create, charset, todo, state, warnings, log, returned, given>>

(***************************************************************************)
(* Characters                                                              *)
(***************************************************************************)
UpperChars == "ABCDEFGHIJKLMNOPQRSTUVWXYZ"
LowerChars == "abcdefghijklmnopqrstuvwxyz"
DigitChars == "0123456789"

CharsOf(s) == { SubSeq(s, k, k) : k \in 1..Len(s) }

UpperSet == CharsOf(UpperChars)
DigitSet == CharsOf(DigitChars)
\* \w : letters, digits and the underscore
WordSet == CharsOf(UpperChars) \cup CharsOf(LowerChars) \cup DigitSet \cup {"_"}
\* \s
SpaceSet == {" ", "\t", "\n", "\r", "\f"}

LowerTable ==
    [c \in UpperSet |->
        LET k == CHOOSE k \in 1..Len(UpperChars) : SubSeq(UpperChars, k, k) = c
        IN  SubSeq(LowerChars, k, k)]

\* the case folding re.I compares characters under
LowerChar(c) == IF c \in UpperSet THEN LowerTable[c] ELSE c

\* str.lower()
RECURSIVE LowerStr(_)
LowerStr(s) ==
    IF Len(s) = 0 THEN ""
    ELSE LowerChar(SubSeq(s, 1, 1)) \o LowerStr(SubSeq(s, 2, Len(s)))

At(s, i) == SubSeq(s, i, i)

StartsWith(s, p) == Len(s) >= Len(p) /\ SubSeq(s, 1, Len(p)) = p

(***************************************************************************)
(* Pattern trees.  A node is a tuple whose first element names its kind.   *)
(***************************************************************************)
Lit(str)       == <<"lit", str>>          \* a literal string, compared under re.I
In(S)          == <<"set", S, TRUE>>      \* [...]
NotIn(S)       == <<"set", S, FALSE>>     \* [^...]
Dot            == <<"set", {"\n"}, FALSE>>
Cat(rs)        == <<"cat", rs>>
Alt(rs)        == <<"alt", rs>>
Star(r)        == <<"rep", r, TRUE>>      \* r*
LazyStar(r)    == <<"rep", r, FALSE>>     \* r*?
Plus(r)        == Cat(<<r, Star(r)>>)     \* r+
Empty          == Cat(<<>>)
Opt(r)         == Alt(<<r, Empty>>)       \* r?
Grp(name, r)   == <<"grp", name, r>>      \* (?P<name>r), or a numbered group
Ahead(r)       == <<"look", r, TRUE>>     \* (?=r)
NotAhead(r)    == <<"look", r, FALSE>>    \* (?!r)
Eol            == <<"eol">>               \* $
Bol            == <<"bol">>               \* ^

NoMatch == [ok |-> FALSE, start |-> 0, end |-> 0, caps |-> <<>>]

\* the literal str stands at position i of s, letter case aside
LitAt(str, s, i) ==
    /\ i + Len(str) - 1 <= Len(s)
    /\ \A j \in 1..Len(str) : LowerChar(At(s, i + j - 1)) = LowerChar(At(str, j))

AllPos(s) == 1..(Len(s) + 1)

Min(P) == CHOOSE p \in P : \A q \in P : p <= q
Max(P) == CHOOSE p \in P : \A q \in P : p >= q

\* the positions of s whose character is not one the class node n accepts
Breaks(n, s) == { j \in 1..Len(s) : (At(s, j) \in n[2]) # n[3] }

(***************************************************************************)
(* The matcher.  Starts(n, s, OK) is the set of positions of s from which  *)
(* node n can match so as to end at a position of OK.  Resolve(n, s, i,    *)
(* OK, caps) is the match a backtracking engine finds first from such a    *)
(* position i: at each choice (the alternatives of an alternation in       *)
(* order, one more round of a greedy repetition before none, none before   *)
(* one more of a lazy one) it takes the first that can still end in OK.    *)
(***************************************************************************)
RECURSIVE Starts(_, _, _)
RECURSIVE Suffixes(_, _, _, _)
RECURSIVE Closure(_, _, _)

\* for the nodes rs[k..]: the start sets of rs[k..], rs[k+1..], ..., <<>>
Suffixes(rs, k, s, OK) ==
    IF k > Len(rs) THEN <<OK>>
    ELSE LET t == Suffixes(rs, k + 1, s, OK)
         IN  \* nothing can start before a node nothing can follow
             IF t[1] = {} THEN <<{}>> \o t
             ELSE <<Starts(rs[k], s, t[1])>> \o t

\* the positions from which rounds of r lead into X
Closure(r, s, X) ==
    LET one == Starts(r, s, X)
        Y   == { i \in AllPos(s) : i \in X \/ i \in one }
    IN  IF Y = X THEN X ELSE Closure(r, s, Y)

Starts(n, s, OK) ==
    LET kind == n[1] IN
    CASE kind = "lit" ->
            { i \in AllPos(s) : (i + Len(n[2])) \in OK /\ LitAt(n[2], s, i) }
      [] kind = "set" ->
            { i \in 1..Len(s) : (i + 1) \in OK /\ ((At(s, i) \in n[2]) = n[3]) }
      [] kind = "cat" -> Suffixes(n[2], 1, s, OK)[1]
      [] kind = "alt" ->
            IF n[2] = <<>> THEN {}
            ELSE LET first  == Starts(Head(n[2]), s, OK)
                     others == Starts(Alt(Tail(n[2])), s, OK)
                 IN  { i \in AllPos(s) : i \in first \/ i \in others }
      [] kind = "rep" ->
            IF n[2][1] = "set"
            THEN LET br == Breaks(n[2], s)
                 IN  { i \in AllPos(s) :
                         \E e \in OK : e >= i /\ \A b \in br : b < i \/ b >= e }
            ELSE Closure(n[2], s, OK)
      [] kind = "grp" -> Starts(n[3], s, OK)
      [] kind = "look" ->
            LET inner == Starts(n[2], s, AllPos(s))
            IN  { i \in OK : (i \in inner) = n[3] }
      [] kind = "eol" ->
            { i \in OK : i = Len(s) + 1 \/ (i = Len(s) /\ At(s, i) = "\n") }
      [] kind = "bol" -> { i \in OK : i = 1 }

RECURSIVE Resolve(_, _, _, _, _)
RECURSIVE ResolveCat(_, _, _, _, _, _)
RECURSIVE ResolveRound(_, _, _, _, _, _)
RECURSIVE ResolveNext(_, _, _, _, _, _, _)

ResolveCat(rs, k, T, s, i, caps) ==
    IF k > Len(rs) THEN [end |-> i, caps |-> caps]
    ELSE LET a == Resolve(rs[k], s, i, T[k + 1], caps)
         IN  \* (the test only has a evaluated before the next node is taken up)
             IF a.end < i THEN a
             ELSE ResolveCat(rs, k + 1, T, s, a.end, a.caps)

Resolve(n, s, i, OK, caps) ==
    LET kind == n[1] IN
    CASE kind = "lit" -> [end |-> i + Len(n[2]), caps |-> caps]
      [] kind = "set" -> [end |-> i + 1, caps |-> caps]
      [] kind = "cat" -> ResolveCat(n[2], 1, Suffixes(n[2], 1, s, OK), s, i, caps)
      [] kind = "alt" ->
            LET j == Min({ j \in 1..Len(n[2]) : i \in Starts(n[2][j], s, OK) })
            IN  Resolve(n[2][j], s, i, OK, caps)
      [] kind = "rep" ->
            IF n[2][1] = "set"
            THEN LET br   == Breaks(n[2], s)
                     ends == { e \in OK : e >= i /\ \A b \in br : b < i \/ b >= e }
                 IN  [end |-> IF n[3] THEN Max(ends) ELSE Min(ends), caps |-> caps]
            ELSE ResolveRound(n, s, i, OK, caps, { p \in Starts(n, s, OK) : p # i })
      [] kind = "grp" ->
            LET a == Resolve(n[3], s, i, OK, caps)
            IN  [end |-> a.end,
                 caps |-> [a.caps EXCEPT ![n[2]] = <<SubSeq(s, i, a.end - 1)>>]]
      [] kind = "look" -> [end |-> i, caps |-> caps]
      [] kind = "eol" -> [end |-> i, caps |-> caps]
      [] kind = "bol" -> [end |-> i, caps |-> caps]

\* a repetition at i, X being the positions other than i from which it can
\* still end in OK: whether one more round can be made, and that round
ResolveRound(n, s, i, OK, caps, X) ==
    ResolveNext(n, s, i, OK, caps, i \in Starts(n[2], s, X), Resolve(n[2], s, i, X, caps))

\* a greedy repetition makes the round when it can, a lazy one when it must
ResolveNext(n, s, i, OK, caps, more, a) ==
    IF (IF n[3] THEN more ELSE i \notin OK) /\ a.end > i
    THEN Resolve(n, s, a.end, OK, a.caps)
    ELSE [end |-> i, caps |-> caps]

\* A compiled pattern: its tree and the names of its groups.  A group that
\* did not take part in the match is None, <<>>; one that did is <<text>>.
Compiled(tree, groups) == [tree |-> tree, groups |-> groups]

None == <<>>
Some(v) == <<v>>
\* Python's truth value of a group: captured and not empty
Truthy(g) == g # None /\ g[1] # ""

NoCaps(re) == [g \in re.groups |-> None]

\* the match from position pos, given the set S of positions a match can
\* start at
Matched(pos, a) == [ok |-> TRUE, start |-> pos, end |-> a.end, caps |-> a.caps]

MatchIn(re, s, pos, S) ==
    IF pos \notin S THEN NoMatch
    ELSE Matched(pos, Resolve(re.tree, s, pos, AllPos(s), NoCaps(re)))

\* regex.match(s)
ReMatch(re, s) == MatchIn(re, s, 1, Starts(re.tree, s, AllPos(s)))

\* where the scan for the next match resumes: past the match, or one past
\* an empty one
ResumeAt(m) == IF m.end = m.start THEN m.end + 1 ELSE m.end

\* the non-overlapping matches at or after pos, left to right, given the set
\* S of the positions a match can start at
RECURSIVE MatchesFrom(_, _, _, _)
RECURSIVE MatchesAfter(_, _, _, _, _)
MatchesFrom(re, s, pos, S) ==
    LET from == { p \in S : p >= pos }
    IN  IF from = {} THEN <<>>
        ELSE MatchesAfter(re, s, pos, S, MatchIn(re, s, Min(from), S))

\* the match m found, and the matches after it
MatchesAfter(re, s, pos, S, m) ==
    IF m.end < pos THEN <<>>
    ELSE <<m>> \o MatchesFrom(re, s, ResumeAt(m), S)

\* regex.finditer(s)
ReFindIter(re, s) == MatchesFrom(re, s, 1, Starts(re.tree, s, AllPos(s)))

\* the text of s outside the matches ms, from position pos on
RECURSIVE Outside(_, _, _)
Outside(s, ms, pos) ==
    IF ms = <<>> THEN SubSeq(s, pos, Len(s))
    ELSE SubSeq(s, pos, Head(ms).start - 1) \o Outside(s, Tail(ms), Head(ms).end)

\* regex.sub("", s): s without the matches
ReSubEmpty(re, s) == Outside(s, ReFindIter(re, s), 1)

\* the pieces of s between the matches ms, from position pos on
RECURSIVE Between(_, _, _)
Between(s, ms, pos) ==
    IF ms = <<>> THEN <<SubSeq(s, pos, Len(s))>>
    ELSE <<SubSeq(s, pos, Head(ms).start - 1)>> \o Between(s, Tail(ms), Head(ms).end)

\* re.split(r"\r?\n", s)
NewlineRe == Compiled(Cat(<<Opt(Lit("\r")), Lit("\n")>>), {})

SplitLines(s) == Between(s, ReFindIter(NewlineRe, s), 1)

\* regex.findall(s) of a pattern without groups: the matched texts
RECURSIVE Texts(_, _)
Texts(s, ms) ==
    IF ms = <<>> THEN <<>>
    ELSE <<SubSeq(s, Head(ms).start, Head(ms).end - 1)>> \o Texts(s, Tail(ms))

ReFindAllTexts(re, s) == Texts(s, ReFindIter(re, s))

\* a group as regex.findall reports it: "" when it took no part
GroupText(g) == IF g = None THEN "" ELSE g[1]

(***************************************************************************)
(* The collaborators a parser is constructed with: the dialect (its name   *)
(* and its registry of type names) and the identifier preparer.            *)
(***************************************************************************)
dialect_name == "mysql"
\* the preparer of a server in ANSI_QUOTES mode: identifiers in double quotes
initial_quote == "\""
final_quote == "\""

\* str.replace(old, new): the occurrences of old, left to right
RECURSIVE Replace(_, _, _)
Replace(s, old, new) ==
    IF Len(s) < Len(old) THEN s
    ELSE IF SubSeq(s, 1, Len(old)) = old
         THEN new \o Replace(SubSeq(s, Len(old) + 1, Len(s)), old, new)
         ELSE At(s, 1) \o Replace(SubSeq(s, 2, Len(s)), old, new)

\* preparer._escape_identifier, _unescape_identifier and quote_identifier
_escape_identifier(v) == Replace(v, final_quote, final_quote \o final_quote)
_unescape_identifier(v) == Replace(v, final_quote \o final_quote, final_quote)
quote_identifier(v) == initial_quote \o _escape_identifier(v) \o final_quote

(***************************************************************************)
(* _prep_regexes                                                           *)
(***************************************************************************)
iq == initial_quote
fq == final_quote
esc_fq == _escape_identifier(final_quote)

W == In(WordSet)              \* \w
D == In(DigitSet)             \* \d
S_ == In(SpaceSet)            \* \s
NonSpace == NotIn(SpaceSet)   \* \S
Sp == Plus(Lit(" "))          \* " +"
Q == "'"                      \* \x27

\* %(iq)s(?P<name>(?:%(esc_fq)s|[^%(fq)s])+)%(fq)s
QuotedName(group) ==
    Cat(<<Lit(iq), Grp(group, Plus(Alt(<<Lit(esc_fq), NotIn(CharsOf(fq))>>))), Lit(fq)>>)

\* '(?:''|[^'])*'
QuotedString == Cat(<<Lit(Q), Star(Alt(<<Lit(Q \o Q), NotIn({Q})>>)), Lit(Q)>>)

_pr_name_regex ==
    Compiled(
        Cat(<<Bol, Lit("CREATE "), Opt(Cat(<<Plus(W), Sp>>)), Lit("TABLE"), Sp,
              QuotedName("name"), Sp, Lit("("), Eol>>),
        {"name"})

_re_keyexprs ==
    Compiled(
        Plus(Cat(<<
            Cat(<<Lit(iq), Grp("1", Plus(Alt(<<Lit(esc_fq), NotIn(CharsOf(fq))>>))), Lit(fq)>>),
            Opt(Cat(<<Lit("("), Grp("2", Plus(D)), Lit(")")>>)),
            Opt(Cat(<<Sp, Grp("3", Alt(<<Lit("ASC"), Lit("DESC")>>))>>)),
            Ahead(Alt(<<Lit(","), Eol>>))>>)),
        {"1", "2", "3"})

_re_csv_str == Compiled(QuotedString, {})

_re_csv_int == Compiled(Plus(D), {})

\* (?:\((?P<arg>(?:\d+|\d+,\d+|(?:'(?:''|[^'])*',?)+))\))?
ColumnArgFull ==
    Opt(Cat(<<Lit("("),
              Grp("arg", Alt(<<Plus(D),
                               Cat(<<Plus(D), Lit(","), Plus(D)>>),
                               Plus(Cat(<<QuotedString, Opt(Lit(","))>>))>>)),
              Lit(")")>>))

\* [\w\.\(\)]+
DefaultToken == Plus(In(WordSet \cup {".", "(", ")"}))

ColumnGroups ==
    {"name", "coltype", "arg", "unsigned", "zerofill", "charset", "collate",
     "notnull", "default", "generated", "persistence", "autoincr", "comment",
     "colfmt", "storage", "extra"}

_re_column ==
    Compiled(
        Cat(<<
            Lit("  "),
            QuotedName("name"), Sp,
            Grp("coltype", Plus(W)),
            ColumnArgFull,
            Opt(Cat(<<Sp, Grp("unsigned", Lit("UNSIGNED"))>>)),
            Opt(Cat(<<Sp, Grp("zerofill", Lit("ZEROFILL"))>>)),
            Opt(Cat(<<Sp, Lit("CHARACTER SET"), Sp, Grp("charset", Plus(W))>>)),
            Opt(Cat(<<Sp, Lit("COLLATE"), Sp, Grp("collate", Plus(W))>>)),
            Opt(Cat(<<Sp, Grp("notnull", Cat(<<Opt(Lit("NOT ")), Lit("NULL")>>))>>)),
            Opt(Cat(<<Sp, Lit("DEFAULT"), Sp,
                      Grp("default",
                          Alt(<<Lit("NULL"),
                                QuotedString,
                                Cat(<<DefaultToken,
                                      Opt(Cat(<<Sp, Lit("ON UPDATE "), DefaultToken>>))>>)>>))>>)),
            Opt(Cat(<<Sp, Opt(Lit("GENERATED ALWAYS")), Opt(Lit(" ")), Lit("AS"), Sp,
                      Opt(Grp("generated", Cat(<<Lit("("), Star(Dot), Lit(")")>>))),
                      Opt(Lit(" ")),
                      Opt(Grp("persistence", Alt(<<Lit("VIRTUAL"), Lit("STORED")>>)))>>)),
            Opt(Cat(<<Sp, Grp("autoincr", Lit("AUTO_INCREMENT"))>>)),
            Opt(Cat(<<Sp, Lit("COMMENT"), Sp, Lit(Q),
                      Grp("comment", Star(Alt(<<Lit(Q \o Q), NotIn({Q})>>))), Lit(Q)>>)),
            Opt(Cat(<<Sp, Lit("COLUMN_FORMAT"), Sp, Grp("colfmt", Plus(W))>>)),
            Opt(Cat(<<Sp, Lit("STORAGE"), Sp, Grp("storage", Plus(W))>>)),
            Opt(Cat(<<Sp, Grp("extra", Star(Dot))>>)),
            Opt(Lit(",")), Eol>>),
        ColumnGroups)

_re_column_loose ==
    Compiled(
        Cat(<<
            Lit("  "),
            QuotedName("name"), Sp,
            Grp("coltype", Plus(W)),
            Opt(Cat(<<Lit("("),
                      Grp("arg", Alt(<<Plus(D),
                                       Cat(<<Plus(D), Lit(","), Plus(D)>>),
                                       Cat(<<Lit(Q), Plus(Alt(<<Lit(Q \o Q), NotIn({Q})>>)), Lit(Q)>>)>>)),
                      Lit(")")>>)),
            LazyStar(Dot),
            Opt(Grp("notnull", Cat(<<Lit("NOT "), Lit("NULL")>>)))>>),
        {"name", "coltype", "arg", "notnull"})

_re_key ==
    Compiled(
        Cat(<<
            Lit("  "),
            Opt(Cat(<<Grp("type", Plus(NonSpace)), Lit(" ")>>)), Lit("KEY"),
            Opt(Cat(<<Sp, QuotedName("name")>>)),
            Opt(Cat(<<Sp, Lit("USING"), Sp, Grp("using_pre", Plus(NonSpace))>>)),
            Sp, Lit("("), Grp("columns", Cat(<<Dot, LazyStar(Dot)>>)), Lit(")"),
            Opt(Cat(<<Sp, Lit("USING"), Sp, Grp("using_post", Plus(NonSpace))>>)),
            Opt(Cat(<<Sp, Lit("KEY_BLOCK_SIZE"), Star(Lit(" ")), Opt(In({" ", "="})),
                      Star(Lit(" ")), Grp("keyblock", Plus(NonSpace))>>)),
            Opt(Cat(<<Sp, Lit("WITH PARSER"), Sp, Grp("parser", Plus(NonSpace))>>)),
            Opt(Cat(<<Sp, Lit("COMMENT"), Sp,
                      Grp("comment",
                          Plus(Alt(<<Lit(Q \o Q),
                                     Cat(<<Lit(Q), LazyStar(NotIn({Q})), Lit(Q)>>)>>)))>>)),
            Opt(Cat(<<Sp, Lit("/*"), Grp("version_sql", Plus(Dot)), Lit("*/"), Sp>>)),
            Opt(Lit(",")), Eol>>),
        {"type", "name", "using_pre", "columns", "using_post", "keyblock",
         "parser", "comment", "version_sql"})

_re_key_version_sql ==
    Compiled(
        Cat(<<Lit("!"), Plus(D), Lit(" "),
              Opt(Cat(<<Star(Lit(" ")), Lit("WITH PARSER"), Sp,
                        Grp("parser", Plus(NonSpace)), Star(Lit(" "))>>))>>),
        {"parser"})

\* kw["on"] = "RESTRICT|CASCADE|SET NULL|NO ACTION"
OnAction == Alt(<<Lit("RESTRICT"), Lit("CASCADE"), Lit("SET NULL"), Lit("NO ACTION")>>)

\* %(iq)s[^%(fq)s]+%(fq)s
QuotedPart == Cat(<<Lit(iq), Plus(NotIn(CharsOf(fq))), Lit(fq)>>)

_re_fk_constraint ==
    Compiled(
        Cat(<<
            Lit("  "), Lit("CONSTRAINT"), Sp,
            QuotedName("name"), Sp,
            Lit("FOREIGN KEY"), Sp,
            Lit("("), Grp("local", Cat(<<NotIn({")"}), LazyStar(NotIn({")"}))>>)),
            Lit(") REFERENCES"), Sp,
            Grp("table", Cat(<<QuotedPart, Opt(Cat(<<Lit("."), QuotedPart>>))>>)), Sp,
            Lit("("), Grp("foreign", Cat(<<NotIn({")"}), LazyStar(NotIn({")"}))>>)), Lit(")"),
            Opt(Cat(<<Sp, Grp("match", Cat(<<Lit("MATCH "), Plus(W)>>))>>)),
            Opt(Cat(<<Sp, Lit("ON DELETE "), Grp("ondelete", OnAction)>>)),
            Opt(Cat(<<Sp, Lit("ON UPDATE "), Grp("onupdate", OnAction)>>))>>),
        {"name", "local", "table", "foreign", "match", "ondelete", "onupdate"})

_re_ck_constraint ==
    Compiled(
        Cat(<<
            Lit("  "), Lit("CONSTRAINT"), Sp,
            QuotedName("name"), Sp,
            Lit("CHECK"), Sp,
            Lit("("), Grp("sqltext", Plus(Dot)), Lit(")"), Opt(Lit(","))>>),
        {"name", "sqltext"})

_re_partition ==
    Compiled(Cat(<<Star(Dot), Opt(Lit("SUB")), Lit("PARTITION"), Star(Dot)>>), {})

\* _optional_equals = r"(?:\s*(?:=\s*)|\s+)"
_optional_equals == Alt(<<Cat(<<Star(S_), Cat(<<Lit("="), Star(S_)>>)>>), Plus(S_)>>)

\* the cleanup of a string option and of a column comment:
\* v.replace("\\\\", "\\").replace("''", "'")
CleanupString(v) == Replace(Replace(v, "\\\\", "\\"), Q \o Q, Q)

\* _pr_compile(regex, cleanup): the pattern and whether it has a cleanup
_pr_compile(tree, cleanup) ==
    [tree |-> tree, groups |-> {"directive", "val"}, cleanup |-> cleanup]

_add_option_string(directive) ==
    _pr_compile(
        Cat(<<Grp("directive", Lit(directive)), _optional_equals,
              Lit(Q), Grp("val", LazyStar(Alt(<<NotIn({Q}), Lit(Q \o Q)>>))), Lit(Q),
              NotAhead(Lit(Q))>>),
        TRUE)

_add_option_word(directive) ==
    _pr_compile(
        Cat(<<Grp("directive", Lit(directive)), _optional_equals, Grp("val", Plus(W))>>),
        FALSE)

_add_option_regex(directive, regex) ==
    _pr_compile(
        Cat(<<Grp("directive", Lit(directive)), _optional_equals, Grp("val", regex)>>),
        FALSE)

_options_of_type_string ==
    <<"COMMENT", "DATA DIRECTORY", "INDEX DIRECTORY", "PASSWORD", "CONNECTION">>

OptionsOfTypeWord ==
    <<"ENGINE", "TYPE", "AUTO_INCREMENT", "AVG_ROW_LENGTH", "CHARACTER SET",
      "DEFAULT CHARSET", "CHECKSUM", "COLLATE", "DELAY_KEY_WRITE",
      "INSERT_METHOD", "MAX_ROWS", "MIN_ROWS", "PACK_KEYS", "ROW_FORMAT",
      "KEY_BLOCK_SIZE">>

OptionsOfTypeRegex ==
    << _add_option_regex("UNION", Cat(<<Lit("("), Plus(NotIn({")"})), Lit(")")>>)),
       _add_option_regex("TABLESPACE", Cat(<<LazyStar(Dot), Lit(" STORAGE DISK")>>)),
       _add_option_regex("RAID_TYPE",
            Cat(<<Plus(W), Plus(S_), Lit("RAID_CHUNKS"), Star(S_), Lit("="), Star(S_),
                  Plus(W), Lit("RAID_CHUNKSIZE"), Star(S_), Lit("="), Star(S_), Plus(W)>>)) >>

\* the order the option patterns are registered in: string, word, regex
RECURSIVE AddOptionStrings(_)
AddOptionStrings(ds) ==
    IF ds = <<>> THEN <<>> ELSE <<_add_option_string(Head(ds))>> \o AddOptionStrings(Tail(ds))

RECURSIVE AddOptionWords(_)
AddOptionWords(ds) ==
    IF ds = <<>> THEN <<>> ELSE <<_add_option_word(Head(ds))>> \o AddOptionWords(Tail(ds))

_pr_options ==
    AddOptionStrings(_options_of_type_string) \o AddOptionWords(OptionsOfTypeWord)
    \o OptionsOfTypeRegex

(***************************************************************************)
(* The dialect's registry of type names, dialect.ischema_names, and the    *)
(* families of classes _parse_column asks about.                           *)
(***************************************************************************)
NullType == "NullType"

ischema_names ==
    ("int" :> "INTEGER") @@ ("bigint" :> "BIGINT") @@ ("varchar" :> "VARCHAR")
    @@ ("datetime" :> "DATETIME") @@ ("time" :> "TIME") @@ ("timestamp" :> "TIMESTAMP")
    @@ ("enum" :> "ENUM") @@ ("set" :> "SET") @@ ("decimal" :> "DECIMAL")

\* issubclass(col_type, (DATETIME, TIME, TIMESTAMP))
IsFractionalTime(col_type) == col_type \in {"DATETIME", "TIME", "TIMESTAMP"}
\* issubclass(col_type, (ENUM, SET))
IsEnumOrSet(col_type) == col_type \in {"ENUM", "SET"}
\* issubclass(col_type, sqltypes.Integer)
IsInteger(col_type) == col_type \in {"INTEGER", "BIGINT"}

\* preparer.unformat_identifiers: the parts of a possibly schema-qualified,
\* possibly quoted identifier, unescaped
_r_identifiers ==
    Compiled(
        Plus(Cat(<<Alt(<<Cat(<<Lit(iq), Grp("1", Plus(Alt(<<Lit(esc_fq), NotIn(CharsOf(fq))>>))), Lit(fq)>>),
                         Grp("2", Plus(NotIn({"."})))>>),
                   Ahead(Alt(<<Lit("."), Eol>>))>>)),
        {"1", "2"})

RECURSIVE IdentifierParts(_)
IdentifierParts(ms) ==
    IF ms = <<>> THEN <<>>
    ELSE LET c == Head(ms).caps
             i == IF Truthy(c["1"]) THEN c["1"][1] ELSE GroupText(c["2"])
         IN  <<_unescape_identifier(i)>> \o IdentifierParts(Tail(ms))

unformat_identifiers(identifiers) == IdentifierParts(ReFindIter(_r_identifiers, identifiers))

(***************************************************************************)
(* ReflectedState and the methods of MySQLTableDefinitionParser            *)
(***************************************************************************)
\* a dict with no key
EmptyDict == <<>>
\* d[k] = v
DictSet(d, k, v) == (k :> v) @@ d
\* d.pop(k, None)
DictPop(d, k) == [j \in (DOMAIN d) \ {k} |-> d[j]]

\* ReflectedState.__init__
ReflectedState ==
    [columns |-> <<>>, table_options |-> EmptyDict, table_name |-> None,
     keys |-> <<>>, fk_constraints |-> <<>>, ck_constraints |-> <<>>]

\* int(v) of a string of digits
DigitValue(c) == CHOOSE d \in 0..9 : At(DigitChars, d + 1) = c

RECURSIVE ToInt(_)
ToInt(v) ==
    IF Len(v) = 0 THEN 0
    ELSE 10 * ToInt(SubSeq(v, 1, Len(v) - 1)) + DigitValue(At(v, Len(v)))

RECURSIVE ToInts(_)
ToInts(vs) == IF vs = <<>> THEN <<>> ELSE <<ToInt(Head(vs))>> \o ToInts(Tail(vs))

\* _strip_values: each value without its enclosing quotes, doubled quotes
\* inside undone
StripValue(a) ==
    IF Len(a) > 0 /\ At(a, 1) \in {"\"", Q}
    THEN Replace(SubSeq(a, 2, Len(a) - 1), At(a, 1) \o At(a, 1), At(a, 1))
    ELSE a

RECURSIVE _strip_values(_)
_strip_values(values) ==
    IF values = <<>> THEN <<>>
    ELSE <<StripValue(Head(values))>> \o _strip_values(Tail(values))

\* _parse_keyexprs: the (name, length, direction) triples of a column list
RECURSIVE KeyTriples(_)
KeyTriples(ms) ==
    IF ms = <<>> THEN <<>>
    ELSE LET c == Head(ms).caps
         IN  <<<<GroupText(c["1"]), GroupText(c["2"]), GroupText(c["3"])>>>>
             \o KeyTriples(Tail(ms))

_parse_keyexprs(identifiers) == KeyTriples(ReFindIter(_re_keyexprs, identifiers))

RECURSIVE Firsts(_)
Firsts(ts) == IF ts = <<>> THEN <<>> ELSE <<Head(ts)[1]>> \o Firsts(Tail(ts))

\* lines 88-90: the parser named in the version comment, when it names one
WithVersionParser(spec, m2) ==
    IF m2.ok /\ Truthy(m2.caps["parser"])
    THEN [spec EXCEPT !["parser"] = m2.caps["parser"]]
    ELSE spec

\* lines 87-90
KeyVersionParser(spec) ==
    IF Truthy(spec["version_sql"])
    THEN WithVersionParser(spec, ReMatch(_re_key_version_sql, spec["version_sql"][1]))
    ELSE spec

\* lines 91-94
KeyParser(spec) ==
    IF Truthy(spec["parser"])
    THEN [spec EXCEPT !["parser"] = Some(unformat_identifiers(spec["parser"][1])[1])]
    ELSE spec

\* lines 82-95: the spec of a KEY line
KeySpec(caps) ==
    KeyParser(KeyVersionParser(
        [caps EXCEPT !["columns"] = _parse_keyexprs(caps["columns"][1])]))

\* lines 100-105: the spec of a FOREIGN KEY line
FkSpec(caps) ==
    [caps EXCEPT !["table"] = unformat_identifiers(caps["table"][1]),
                 !["local"] = Firsts(_parse_keyexprs(caps["local"][1])),
                 !["foreign"] = Firsts(_parse_keyexprs(caps["foreign"][1]))]

\* the kind and the spec, given the matches of the four patterns
ConstraintsOf(line, mkey, mfk, mck, mpt) ==
    IF mkey.ok THEN [type_ |-> "key", spec |-> KeySpec(mkey.caps)]
    ELSE IF mfk.ok THEN [type_ |-> "fk_constraint", spec |-> FkSpec(mfk.caps)]
    ELSE IF mck.ok THEN [type_ |-> "ck_constraint", spec |-> mck.caps]
    ELSE IF mpt.ok THEN [type_ |-> "partition", spec |-> line]
    ELSE [type_ |-> "none", spec |-> line]

\* _parse_constraints: the kind of a KEY or CONSTRAINT line and what was
\* read from it; the kind is "none" where the method returns None
_parse_constraints(line) ==
    ConstraintsOf(line, ReMatch(_re_key, line), ReMatch(_re_fk_constraint, line),
                  ReMatch(_re_ck_constraint, line), ReMatch(_re_partition, line))

\* _parse_table_name, lines 129-130: the match of the name pattern on a line
TableNameMatch(line) == ReMatch(_pr_name_regex, line)

\* the loop of _parse_table_options over the option patterns prs[k..]:
\* the options found and the text left of the line
RECURSIVE ScanOptions(_, _, _, _)
RECURSIVE ScanSearched(_, _, _, _, _)
RECURSIVE ScanFound(_, _, _, _, _, _)
ScanOptions(prs, k, rest_of_line, options) ==
    IF k > Len(prs) THEN [options |-> options, rest_of_line |-> rest_of_line]
    ELSE ScanSearched(prs, k, rest_of_line, options,
                      Starts(prs[k].tree, rest_of_line, AllPos(rest_of_line)))

\* lines 148-150: regex.search, S being the positions a match can start at
ScanSearched(prs, k, rest_of_line, options, S) ==
    IF S = {} THEN ScanOptions(prs, k + 1, rest_of_line, options)
    ELSE ScanFound(prs, k, rest_of_line, options, S,
                   MatchIn(prs[k], rest_of_line, Min(S), S))

\* a faulty variant of the step below: the option is recorded and the
\* matched text is left in the line
ScanFoundKeepingLine(prs, k, rest_of_line, options, S, m) ==
    ScanOptions(prs, k + 1, rest_of_line,
                DictSet(options, LowerStr(m.caps["directive"][1]),
                        IF prs[k].cleanup THEN CleanupString(m.caps["val"][1])
                        ELSE m.caps["val"][1]))

\* lines 151-155: the option of the match m, and the line without the
\* matches of the pattern
ScanFound(prs, k, rest_of_line, options, S, m) ==
    ScanOptions(prs, k + 1,
                Outside(rest_of_line, MatchesFrom(prs[k], rest_of_line, 1, S), 1),
                DictSet(options, LowerStr(m.caps["directive"][1]),
                        IF prs[k].cleanup THEN CleanupString(m.caps["val"][1])
                        ELSE m.caps["val"][1]))

\* a faulty variant of the list below: only the first option is dropped
NopeOptionsFirstOnly == <<"auto_increment">>

\* the options never kept
NopeOptions == <<"auto_increment", "data directory", "index directory">>

RECURSIVE PopAll(_, _)
PopAll(options, nopes) ==
    IF nopes = <<>> THEN options ELSE PopAll(DictPop(options, Head(nopes)), Tail(nopes))

\* _parse_table_options, lines 140-158: the options dict of one line, the
\* options never kept popped from it
FoundOptions(line) ==
    PopAll(IF line = "" \/ line = ")" THEN EmptyDict
           ELSE ScanOptions(_pr_options, 1, line, EmptyDict).options,
           NopeOptions)

\* a faulty variant of the key below: the option without the dialect name
OptionKeyUnprefixed(opt) == opt

\* "%s_%s" % (self.dialect.name, opt)
OptionKey(opt) == dialect_name \o "_" \o opt

\* _parse_table_options, lines 160-161: the options stored under their
\* namespaced keys
StoreOptions(options, state_) ==
    LET stored == [key \in { OptionKey(opt) : opt \in DOMAIN options } |->
                     LET opt == CHOOSE opt \in DOMAIN options : OptionKey(opt) = key
                     IN  options[opt]]
    IN  [state_ EXCEPT !.table_options = stored @@ @]

\* spec.get(kw, False): None when the pattern has no such group
Get(spec, kw) == IF kw \in DOMAIN spec THEN spec[kw] ELSE None

\* the type arguments of a column: the quoted strings or the integers of args
TypeArgs(args) ==
    IF args = None \/ args[1] = "" THEN <<>>
    ELSE IF At(args[1], 1) = Q /\ At(args[1], Len(args[1])) = Q
         THEN ReFindAllTexts(_re_csv_str, args[1])
         ELSE ToInts(ReFindAllTexts(_re_csv_int, args[1]))

\* col_type(*type_args, **type_kw)
TypeInstance(col_type, type_args, type_kw) ==
    [cls |-> col_type, args |-> type_args, kw |-> type_kw]

\* the keyword of a dict when cond holds, no keyword otherwise
KwIf(cond, k, v) == IF cond THEN k :> v ELSE EmptyDict

\* _parse_column, lines 228-232: nullable unless the notnull group is the
\* text NOT NULL
NullableKw(spec) == "nullable" :> (Get(spec, "notnull") # Some("NOT NULL"))

\* a faulty variant of the rule below: False for every column without the
\* marker
AutoincrementTwoValued(spec, col_type) ==
    "autoincrement" :> Truthy(Get(spec, "autoincr"))

\* _parse_column, lines 234-238: autoincrement True with the marker, False
\* without it on an integer type, no key otherwise
AutoincrementKw(spec, col_type) ==
    IF Truthy(Get(spec, "autoincr")) THEN "autoincrement" :> TRUE
    ELSE KwIf(IsInteger(col_type), "autoincrement", FALSE)

\* lines 208-222: the keywords of the type
TypeKw(spec, col_type, all_args, type_args) ==
    KwIf(IsFractionalTime(col_type) /\ all_args # <<>>, "fsp", Head(all_args))
    @@ KwIf(Truthy(Get(spec, "unsigned")), "unsigned", TRUE)
    @@ KwIf(Truthy(Get(spec, "zerofill")), "zerofill", TRUE)
    @@ KwIf(Truthy(Get(spec, "charset")), "charset", Get(spec, "charset")[1])
    @@ KwIf(Truthy(Get(spec, "collate")), "collate", Get(spec, "collate")[1])
    @@ KwIf(col_type = "SET" /\ \E k \in 1..Len(type_args) : type_args[k] = "",
            "retrieve_as_bitwise", TRUE)

\* lines 208-210: the arguments left once a time type took its fsp
AfterFsp(col_type, all_args) ==
    IF IsFractionalTime(col_type) /\ all_args # <<>> THEN Tail(all_args) ELSE all_args

\* lines 218-219
TypeArgsOf(col_type, rest_args) ==
    IF IsEnumOrSet(col_type) THEN _strip_values(rest_args) ELSE rest_args

\* lines 206-224: the type of the column
TypeOf(spec, col_type, all_args, type_args) ==
    TypeInstance(col_type, type_args, TypeKw(spec, col_type, all_args, type_args))

\* lines 241-245
DefaultOf(default) == IF default = Some("NULL") THEN None ELSE default

\* lines 247-250
CommentOf(comment) == IF comment = None THEN None ELSE Some(CleanupString(comment[1]))

\* lines 252-258
ComputedKw(sqltext, persisted) ==
    KwIf(sqltext # None, "computed",
         ("sqltext" :> sqltext[1])
         @@ KwIf(persisted # None, "persisted", persisted = Some("STORED")))

\* lines 260-263: the column description
ColumnDict(spec, col_type, all_args) ==
    ("name" :> spec["name"][1])
    @@ ("type" :> TypeOf(spec, col_type, all_args,
                         TypeArgsOf(col_type, AfterFsp(col_type, all_args))))
    @@ ("default" :> DefaultOf(Get(spec, "default")))
    @@ ("comment" :> CommentOf(Get(spec, "comment")))
    @@ NullableKw(spec) @@ AutoincrementKw(spec, col_type)
    @@ ComputedKw(Get(spec, "generated"), Get(spec, "persistence"))

\* lines 189-195: the class the dialect has for the type name, NullType and
\* a warning when it has none
ColumnType(type_) ==
    IF type_ \in DOMAIN ischema_names THEN ischema_names[type_] ELSE NullType

UnknownTypeWarnings(type_, name) ==
    IF type_ \in DOMAIN ischema_names THEN <<>>
    ELSE <<<<"Did not recognize type", type_, name>>>>

\* _parse_column, lines 187-263: the column description built from the
\* groups of a matched column line, and the warnings given on the way
ColumnOf(spec) ==
    [col_d |-> ColumnDict(spec, ColumnType(spec["coltype"][1]), TypeArgs(spec["arg"])),
     warnings |-> UnknownTypeWarnings(spec["coltype"][1], spec["name"][1])]

\* lines 184-185: the warning of a line only the loose pattern matched
Incomplete(line, c) ==
    [found |-> TRUE, col_d |-> c.col_d,
     warnings |-> <<<<"Incomplete reflection of column definition", line>>>> \o c.warnings]

Complete(c) == [found |-> TRUE, col_d |-> c.col_d, warnings |-> c.warnings]

\* a faulty variant of the choice below: the loose pattern is tried first
ParsedLooseFirst(line, full, loose) ==
    IF loose.ok THEN Incomplete(line, ColumnOf(loose.caps))
    ELSE IF full.ok THEN Complete(ColumnOf(full.caps))
    ELSE [found |-> FALSE, col_d |-> None,
          warnings |-> <<<<"Unknown column definition", line>>>>]

\* lines 171-183, given the matches of the full and of the loose pattern
ParsedWith(line, full, loose) ==
    IF full.ok THEN Complete(ColumnOf(full.caps))
    ELSE IF loose.ok THEN Incomplete(line, ColumnOf(loose.caps))
    ELSE [found |-> FALSE, col_d |-> None,
          warnings |-> <<<<"Unknown column definition", line>>>>]

\* _parse_column, lines 171-185: the full pattern, the loose one when the
\* full one fails, and what the line gives: a column description or none,
\* and the warnings
ParsedColumn(line) ==
    ParsedWith(line, ReMatch(_re_column, line), ReMatch(_re_column_loose, line))

\* a faulty variant of the append below: the column is put first
PrependColumn(state_, col_d) == [state_ EXCEPT !.columns = <<col_d>> \o @]

\* state.columns.append(col_d)
AppendColumn(state_, col_d) == [state_ EXCEPT !.columns = Append(@, col_d)]

\* sub in s, as Python's "in" on strings
Contains(s, sub) ==
    \E i \in 1..(Len(s) - Len(sub) + 1) : SubSeq(s, i, i + Len(sub) - 1) = sub

\* " ".join(line)
RECURSIVE JoinWith(_, _)
JoinWith(sep, parts) ==
    IF parts = <<>> THEN ""
    ELSE IF Len(parts) = 1 THEN Head(parts)
    ELSE Head(parts) \o sep \o JoinWith(sep, Tail(parts))

\* the Null field of a row as the caller may give it: a bool, or the text
\* YES or NO of a DESCRIBE row
Bool(b) == [bool |-> b]
Str(t) == [str |-> t]

\* "not nullable": a bool that is False or a text that is empty
Not(v) == IF "bool" \in DOMAIN v THEN ~v.bool ELSE v.str = ""

\* the body of the loop of _describe_to_create: the column line of one
\* DESCRIBE row (name, col_type, nullable, default, extra)
DescribeLine(row) ==
    LET default == row.default[1]
        line ==
            <<" ", quote_identifier(row.name), row.col_type>>
            \o (IF Not(row.nullable) THEN <<"NOT NULL">> ELSE <<>>)
            \o (IF row.default = None \/ default = "" THEN <<>>
                ELSE IF Contains(default, "auto_increment") THEN <<>>
                ELSE IF StartsWith(row.col_type, "timestamp") /\ StartsWith(default, "C")
                     THEN <<"DEFAULT", default>>
                ELSE IF default = "NULL" THEN <<"DEFAULT", default>>
                ELSE <<"DEFAULT", Q \o Replace(default, Q, Q \o Q) \o Q>>)
            \o (IF row.extra = "" THEN <<>> ELSE <<row.extra>>)
    IN  JoinWith(" ", line)

RECURSIVE DescribeLines(_)
DescribeLines(columns) ==
    IF columns = <<>> THEN <<>>
    ELSE <<DescribeLine(Head(columns))>> \o DescribeLines(Tail(columns))

\* _describe_to_create: DESCRIBE rows as the text of a SHOW CREATE TABLE
\* statement
_describe_to_create(table_name, columns) ==
    "CREATE TABLE " \o quote_identifier(table_name) \o " (\n"
    \o JoinWith(",\n", DescribeLines(columns))
    \o "\n) "

(***************************************************************************)
(* The texts the calls of parse are given                                  *)
(***************************************************************************)
Range(f) == { f[i] : i \in DOMAIN f }

\* the sequences of 1 to n elements of S
SeqsUpTo(S, n) == UNION { [1..k -> S] : k \in 1..n }

\* those of them that take no element twice
DistinctSeqsUpTo(S, n) ==
    { f \in SeqsUpTo(S, n) : \A i, j \in DOMAIN f : f[i] = f[j] => i = j }

MaxLines == 2
MaxCalls == 3
MaxOptions == 2
MaxOptionLines == 2
MaxRows == 2

\* lines of SHOW CREATE TABLE output, one or more of every kind parse tells
\* apart, and a line with a carriage return that ends no line
CatalogLines ==
    <<"CREATE TABLE \"t\" (",
      "  \"id\" int NOT NULL AUTO_INCREMENT,",
      "  \"a\" varchar(32) DEFAULT NULL,",
      "  \"x\"",
      "  PRIMARY KEY (\"id\"),",
      "  CONSTRAINT \"fk\" FOREIGN KEY (\"a\") REFERENCES \"u\" (\"b\"),",
      "  CONSTRAINT \"ck\" CHECK (\"id\" > 5)",
      "/*!50100 PARTITION BY HASH (id) */",
      "  garbage here",
      ") ENGINE=InnoDB",
      ")",
      "",
      "a\rb">>

\* the lines among them that are no column, options, name, empty or end
\* line and that no key, constraint or partition pattern matches
UnknownLines == {"  garbage here", "a\rb"}

Separators == {"\n", "\r\n"}
Charsets == {"utf8", "latin1"}

\* the texts of the calls that are repeated: a table, the same table with
\* an unknown line in two places, and another table
RepeatedTable == <<CatalogLines[1], CatalogLines[2], CatalogLines[5], CatalogLines[10]>>
RepeatedTexts ==
    { JoinWith("\n", RepeatedTable),
      JoinWith("\n", <<CatalogLines[1], CatalogLines[9], CatalogLines[2],
                       CatalogLines[5], CatalogLines[10]>>),
      JoinWith("\r\n", <<CatalogLines[1], CatalogLines[2], CatalogLines[5],
                         CatalogLines[9], CatalogLines[10]>>),
      JoinWith("\n", <<CatalogLines[1], CatalogLines[3], CatalogLines[11]>>) }

\* directives of a table options line, each with the option it stands for
OptionFragments ==
    <<"ENGINE=InnoDB", "DEFAULT CHARSET=utf8", "COMMENT='hi'", "AUTO_INCREMENT=5",
      "DATA DIRECTORY='/d'", "INDEX DIRECTORY='/i'", "COMMENT='ENGINE=x'">>
FragmentOption ==
    ("ENGINE=InnoDB" :> <<"engine", "InnoDB">>)
    @@ ("DEFAULT CHARSET=utf8" :> <<"default charset", "utf8">>)
    @@ ("COMMENT='hi'" :> <<"comment", "hi">>)
    @@ ("AUTO_INCREMENT=5" :> <<"auto_increment", "5">>)
    @@ ("DATA DIRECTORY='/d'" :> <<"data directory", "/d">>)
    @@ ("INDEX DIRECTORY='/i'" :> <<"index directory", "/i">>)
    @@ ("COMMENT='ENGINE=x'" :> <<"comment", "ENGINE=x">>)

ExampleFragments == {"ENGINE=InnoDB", "DEFAULT CHARSET=utf8", "COMMENT='hi'"}

\* a table options line of the directives fs
OptionsLine(fs) == ") " \o JoinWith(" ", fs)

\* the directives of one line: up to MaxOptions of them in every order, and
\* the three of the example in every order
FragmentSeqs ==
    DistinctSeqsUpTo(Range(OptionFragments), MaxOptions)
    \cup { f \in [1..Cardinality(ExampleFragments) -> ExampleFragments] :
             Range(f) = ExampleFragments }

\* the texts of table options: one line, or several lines of one directive
OptionInputs ==
    { <<fs>> : fs \in FragmentSeqs }
    \cup { ls \in SeqsUpTo({ <<f>> : f \in Range(OptionFragments) }, MaxOptionLines) :
             Len(ls) > 1 }

RECURSIVE OptionsLines(_)
OptionsLines(ls) ==
    IF ls = <<>> THEN <<>> ELSE <<OptionsLine(Head(ls))>> \o OptionsLines(Tail(ls))

\* the parts of a column line
ColumnTypes == {"int", "bigint(20)", "varchar(32)", "timestamp", "blob"}
NullTokens == {"", " NULL", " NOT NULL", " not null"}
AutoincrTokens == {"", " AUTO_INCREMENT", " auto_increment"}

ColumnInputs ==
    { [kind |-> "column", coltype |-> t, notnull |-> n, autoincr |-> a] :
        t \in ColumnTypes, n \in NullTokens, a \in AutoincrTokens }

ColumnText(c) == "  " \o quote_identifier("c") \o " " \o c.coltype \o c.notnull \o c.autoincr

\* rows of DESCRIBE: name, type, nullable, default, extra
DescribeRows ==
    { [name |-> "id", col_type |-> "int(11)", nullable |-> Bool(FALSE),
       default |-> None, extra |-> "auto_increment"],
      [name |-> "a", col_type |-> "varchar(32)", nullable |-> Bool(TRUE),
       default |-> Some("x"), extra |-> ""],
      [name |-> "ts", col_type |-> "timestamp", nullable |-> Bool(FALSE),
       default |-> Some("CURRENT_TIMESTAMP"), extra |-> ""],
      [name |-> "q\"n", col_type |-> "int(11)", nullable |-> Bool(TRUE),
       default |-> Some("NULL"), extra |-> ""],
      [name |-> "d", col_type |-> "decimal(10, 2)", nullable |-> Bool(FALSE),
       default |-> None, extra |-> ""],
      [name |-> "y", col_type |-> "bigint(20)", nullable |-> Str("YES"),
       default |-> None, extra |-> ""],
      [name |-> "n", col_type |-> "bigint(20)", nullable |-> Str("NO"),
       default |-> None, extra |-> ""] }
TableNames == {"t", "t\"x"}

DescribeInputs ==
    { [kind |-> "describe", table_name |-> n, columns |-> rows] :
        n \in TableNames, rows \in SeqsUpTo(DescribeRows, MaxRows) }

(***************************************************************************)
(* What the patterns give on the lines the texts are made of, worked out   *)
(* once for all the states that handle the same line                       *)
(***************************************************************************)
TabulatedLines ==
    Range(CatalogLines)
    \cup { OptionsLine(<<f>>) : f \in Range(OptionFragments) }
    \cup { DescribeLine(r) \o c : r \in DescribeRows, c \in {"", ","} }
    \cup { "CREATE TABLE " \o quote_identifier(n) \o " (" : n \in TableNames }
    \cup { ") " }

\* a faulty variant of the chain below: no branch for the line of the
\* closing parenthesis
HandlerWithoutEndLine(line) ==
    IF StartsWith(line, "  " \o initial_quote) THEN "_parse_column"
    ELSE IF StartsWith(line, ") ") THEN "_parse_table_options"
    ELSE IF StartsWith(line, "CREATE ") THEN "_parse_table_name"
    ELSE IF line = "" THEN "pass"
    ELSE "_parse_constraints"

\* parse, lines 45-59: the branch of the if chain a line takes
Handler(line) ==
    IF StartsWith(line, "  " \o initial_quote) THEN "_parse_column"
    ELSE IF StartsWith(line, ") ") THEN "_parse_table_options"
    ELSE IF line = ")" THEN "pass"
    ELSE IF StartsWith(line, "CREATE ") THEN "_parse_table_name"
    ELSE IF line = "" THEN "pass"
    ELSE "_parse_constraints"

LinesFor(handler) == { line \in TabulatedLines : Handler(line) = handler }

ParsedColumnTable ==
    [line \in LinesFor("_parse_column") |-> ParsedColumn(line)]
FoundOptionsTable ==
    [line \in LinesFor("_parse_table_options") |-> FoundOptions(line)]
TableNameMatchTable ==
    [line \in LinesFor("_parse_table_name") |-> TableNameMatch(line)]
ParsedConstraintsTable ==
    [line \in LinesFor("_parse_constraints") |-> _parse_constraints(line)]

\* _parse_column: the state after the line and the warnings it gave
ColumnParsed(r, state_) ==
    [state |-> IF r.found THEN AppendColumn(state_, r.col_d) ELSE state_,
     warnings |-> r.warnings]

_parse_column(line, state_) ==
    ColumnParsed(IF line \in LinesFor("_parse_column") THEN ParsedColumnTable[line]
                 ELSE ParsedColumn(line),
                 state_)

\* _parse_table_options
_parse_table_options(line, state_) ==
    StoreOptions(IF line \in LinesFor("_parse_table_options") THEN FoundOptionsTable[line]
                 ELSE FoundOptions(line),
                 state_)

\* _parse_table_name: the table name of a CREATE line, if the line has one
NameMatched(m, state_) ==
    IF m.ok
    THEN [state_ EXCEPT !.table_name = Some(_unescape_identifier(m.caps["name"][1]))]
    ELSE state_

_parse_table_name(line, state_) ==
    NameMatched(IF line \in LinesFor("_parse_table_name") THEN TableNameMatchTable[line]
                ELSE TableNameMatch(line),
                state_)

\* a faulty variant of the branch below: whatever was found is kept as a
\* key, without a warning
ConstraintsKeptAsKey(r, state_) ==
    [state |-> [state_ EXCEPT !.keys = Append(@, r.spec)], warnings |-> <<>>]

\* parse, lines 60-70: what the kind _parse_constraints found does to the
\* state, and the warning when it found none
ConstraintsFound(r, state_) ==
    IF r.type_ = "none"
    THEN [state |-> state_, warnings |-> <<<<"Unknown schema content", r.spec>>>>]
    ELSE IF r.type_ = "key"
    THEN [state |-> [state_ EXCEPT !.keys = Append(@, r.spec)], warnings |-> <<>>]
    ELSE IF r.type_ = "fk_constraint"
    THEN [state |-> [state_ EXCEPT !.fk_constraints = Append(@, r.spec)], warnings |-> <<>>]
    ELSE IF r.type_ = "ck_constraint"
    THEN [state |-> [state_ EXCEPT !.ck_constraints = Append(@, r.spec)], warnings |-> <<>>]
    ELSE [state |-> state_, warnings |-> <<>>]

\* a faulty variant of the construction below: the state of the call
\* before is used again
StaleState(cs) == [state EXCEPT !.charset = cs]

\* parse, lines 42-43: a new ReflectedState, with the charset of the call
NewState(cs) ==
    [columns |-> ReflectedState.columns,
     table_options |-> ReflectedState.table_options,
     table_name |-> ReflectedState.table_name,
     keys |-> ReflectedState.keys,
     fk_constraints |-> ReflectedState.fk_constraints,
     ck_constraints |-> ReflectedState.ck_constraints,
     charset |-> cs]

\* the directives of the option patterns, in the order of _pr_options
RegisteredDirectives ==
    _options_of_type_string \o OptionsOfTypeWord \o <<"UNION", "TABLESPACE", "RAID_TYPE">>

(***************************************************************************)
(* parse as a state machine: a call takes a text, the for loop hands the   *)
(* lines one by one to their handlers, and the call returns the state      *)
(***************************************************************************)
Init ==
    /\ parser = [dialect |-> dialect_name,
                 preparer |-> [initial_quote |-> initial_quote, final_quote |-> final_quote],
                 options |-> RegisteredDirectives]
    /\ pc = "idle"
    /\ show_create = ""
    /\ charset = ""
    /\ todo = <<>>
    /\ state = ReflectedState @@ [charset |-> ""]   \* no call yet: nothing read
    /\ warnings = <<>>
    /\ log = <<>>
    /\ returned = <<>>
    /\ given = [kind |-> "none"]

\* parse, lines 41-44: the call, up to the first turn of the loop
Begin(text, cs, from) ==
    /\ pc = "idle"
    /\ pc' = "loop"
    /\ show_create' = text
    /\ charset' = cs
    /\ state' = NewState(cs)
    /\ todo' = SplitLines(text)
    /\ warnings' = <<>>
    /\ log' = <<>>
    /\ given' = from
    /\ UNCHANGED <<parser, returned>>

\* one turn of the loop went to handler
Handled(handler) ==
    /\ todo' = Tail(todo)
    /\ log' = Append(log, [line |-> Head(todo), handler |-> handler])
    /\ UNCHANGED <<parser, pc, show_create, charset, returned, given>>

InLoop(handler) == pc = "loop" /\ todo # <<>> /\ Handler(Head(todo)) = handler

ColumnLine ==
    /\ InLoop("_parse_column")
    /\ \E r \in {_parse_column(Head(todo), state)} :
          state' = r.state /\ warnings' = warnings \o r.warnings
    /\ Handled("_parse_column")

TableOptionsLine ==
    /\ InLoop("_parse_table_options")
    /\ state' = _parse_table_options(Head(todo), state)
    /\ UNCHANGED warnings
    /\ Handled("_parse_table_options")

IgnoredLine ==
    /\ InLoop("pass")
    /\ UNCHANGED <<state, warnings>>
    /\ Handled("pass")

TableNameLine ==
    /\ InLoop("_parse_table_name")
    /\ state' = _parse_table_name(Head(todo), state)
    /\ UNCHANGED warnings
    /\ Handled("_parse_table_name")

ConstraintsLine ==
    /\ InLoop("_parse_constraints")
    /\ \E r \in {ConstraintsFound(IF Head(todo) \in LinesFor("_parse_constraints")
                                   THEN ParsedConstraintsTable[Head(todo)]
                                   ELSE _parse_constraints(Head(todo)),
                                   state)} :
          state' = r.state /\ warnings' = warnings \o r.warnings
    /\ Handled("_parse_constraints")

\* parse, line 71
Return ==
    /\ pc = "loop" /\ todo = <<>>
    /\ pc' = "idle"
    /\ returned' = Append(returned,
                          [show_create |-> show_create, charset |-> charset,
                           lines |-> [i \in DOMAIN log |-> log[i].line],
                           state |-> state, warnings |-> warnings])
    /\ UNCHANGED <<parser, show_create, charset, todo, state, warnings, log, given>>

\* a call has returned and no other has begun
Done == pc = "idle" /\ returned # <<>>

\* one call, of a text of up to MaxLines lines of the catalog
ParseLines ==
    \E ls \in SeqsUpTo(Range(CatalogLines), MaxLines), sep \in Separators :
        /\ returned = <<>>
        /\ Begin(JoinWith(sep, ls), "utf8", [kind |-> "lines", lines |-> ls])

Next ==
    \/ ParseLines
    \/ ColumnLine
    \/ TableOptionsLine
    \/ IgnoredLine
    \/ TableNameLine
    \/ ConstraintsLine
    \/ Return

Spec == Init /\ [][Next]_vars

\* up to MaxCalls calls, one after the other, of the repeated texts
ParseAgain ==
    \E text \in RepeatedTexts, cs \in Charsets :
        /\ Len(returned) < MaxCalls
        /\ Begin(text, cs, [kind |-> "text"])

NextCalls ==
    \/ ParseAgain
    \/ ColumnLine
    \/ TableOptionsLine
    \/ IgnoredLine
    \/ TableNameLine
    \/ ConstraintsLine
    \/ Return

SpecCalls == Init /\ [][NextCalls]_vars

\* one call, of a text of table options lines
ParseOptions ==
    \E ls \in OptionInputs :
        /\ returned = <<>>
        /\ Begin(JoinWith("\n", OptionsLines(ls)), "utf8",
                 [kind |-> "options", lines |-> ls])

NextOptions == ParseOptions \/ TableOptionsLine \/ Return

SpecOptions == Init /\ [][NextOptions]_vars

\* one call, of one column line
ParseColumn ==
    \E c \in ColumnInputs :
        /\ returned = <<>>
        /\ Begin(ColumnText(c), "utf8", c)

NextColumn == ParseColumn \/ ColumnLine \/ Return

SpecColumn == Init /\ [][NextColumn]_vars

\* one call, of the text _describe_to_create makes of DESCRIBE rows
ParseDescribed ==
    \E d \in DescribeInputs :
        /\ returned = <<>>
        /\ Begin(_describe_to_create(d.table_name, d.columns), "utf8", d)

NextDescribed ==
    ParseDescribed \/ TableNameLine \/ ColumnLine \/ TableOptionsLine \/ Return

SpecDescribed == Init /\ [][NextDescribed]_vars

(***************************************************************************)
(* What the specification says of the parser, stated over the calls above  *)
(***************************************************************************)
\* the lines a call has handled, in order
HandledLines == [i \in DOMAIN log |-> log[i].line]

\* the lines of a text that are not unknown schema content
IsKnown(line) == line \notin UnknownLines
Known(lines) == SelectSeq(lines, IsKnown)

\* the for loop is at a line that is unknown schema content
AtUnknownLine == pc = "loop" /\ todo # <<>> /\ Head(todo) \in UnknownLines

\* C1: a line of the constraints path that no key, foreign key, check or
\* partition pattern matches gives one Unknown schema content warning with
\* the line, changes nothing in the state, and the loop goes on to the next
\* line; a call returns only once every line is handled, and what it
\* returns is what the text without the unknown lines returns
UnknownLineTolerated ==
    /\ [][AtUnknownLine =>
            /\ state' = state
            /\ warnings' = Append(warnings, <<"Unknown schema content", Head(todo)>>)
            /\ todo' = Tail(todo)
            /\ pc' = "loop"]_vars
    /\ [][pc = "loop" /\ pc' = "idle" => todo = <<>> /\ Len(returned') = Len(returned) + 1]_vars
    /\ [](\A i, j \in DOMAIN returned :
            (/\ returned[i].charset = returned[j].charset
             /\ Known(returned[i].lines) = Known(returned[j].lines))
            => returned[i].state = returned[j].state)

\* C1: a call returned a text with an unknown line between the CREATE line
\* and a column line, with its warning, and the columns and keys another
\* call returned for the text without the line
UnknownLineTolerated_witness ==
    \E i, j \in DOMAIN returned :
        /\ returned[i].lines = <<CatalogLines[1], CatalogLines[9], CatalogLines[2],
                                 CatalogLines[5], CatalogLines[10]>>
        /\ returned[i].warnings = <<<<"Unknown schema content", CatalogLines[9]>>>>
        /\ returned[j].lines = RepeatedTable
        /\ returned[j].charset = returned[i].charset
        /\ Len(returned[i].state.columns) = 1
        /\ Len(returned[i].state.keys) = 1
        /\ returned[i].state = returned[j].state

\* the names of the columns the column lines of the catalog describe
CatalogColumnName == (CatalogLines[2] :> "id") @@ (CatalogLines[3] :> "a")

RECURSIVE ExpectedNames(_)
ExpectedNames(entries) ==
    IF entries = <<>> THEN <<>>
    ELSE (IF Head(entries).line \in DOMAIN CatalogColumnName
          THEN <<CatalogColumnName[Head(entries).line]>> ELSE <<>>)
         \o ExpectedNames(Tail(entries))

ColumnNames(columns) == [k \in DOMAIN columns |-> columns[k]["name"]]

\* C2: state.columns holds the columns of the column lines handled so far,
\* in the order of the lines and at most one for a line, and a turn of the
\* loop leaves the columns as they are or appends one at the end
ColumnsInLineOrder ==
    /\ [](ColumnNames(state.columns) = ExpectedNames(log))
    /\ [][pc = "loop" =>
            \/ state'.columns = state.columns
            \/ /\ Handler(Head(todo)) = "_parse_column"
               /\ Len(state'.columns) = Len(state.columns) + 1
               /\ SubSeq(state'.columns, 1, Len(state.columns)) = state.columns]_vars

\* C2: a text whose column lines come in the other order than in the
\* catalog returned its columns in the order of the text
ColumnsInLineOrder_witness ==
    /\ Done
    /\ HandledLines = <<CatalogLines[3], CatalogLines[2]>>
    /\ ColumnNames(state.columns) = <<"a", "id">>

\* a call of one options line with the three directives of the example
ExampleGiven ==
    /\ Done
    /\ given.kind = "options"
    /\ Len(given.lines) = 1
    /\ Len(given.lines[1]) = Cardinality(ExampleFragments)
    /\ Range(given.lines[1]) = ExampleFragments

\* C3, as amended: in every order of the three directives the options line
\* of the example gives exactly the options mysql_engine = InnoDB,
\* mysql_default charset = utf8 and mysql_comment = hi
ExampleOptionsRecovered ==
    ExampleGiven =>
        state.table_options = ("mysql_engine" :> "InnoDB")
                              @@ ("mysql_default charset" :> "utf8")
                              @@ ("mysql_comment" :> "hi")

\* C3: the example with its directives in another order than written
ExampleOptionsRecovered_witness ==
    /\ ExampleGiven
    /\ given.lines[1] = <<"COMMENT='hi'", "DEFAULT CHARSET=utf8", "ENGINE=InnoDB">>
    /\ show_create = ") COMMENT='hi' DEFAULT CHARSET=utf8 ENGINE=InnoDB"
    /\ DOMAIN state.table_options = {"mysql_engine", "mysql_default charset", "mysql_comment"}

\* C3, as stated: in every order of the three directives the options line
\* of the example gives exactly the options engine = InnoDB, charset = utf8
\* and comment = hi under the name of the dialect
ExampleOptionsAsStated ==
    ExampleGiven =>
        state.table_options = ("mysql_engine" :> "InnoDB")
                              @@ ("mysql_charset" :> "utf8")
                              @@ ("mysql_comment" :> "hi")

\* the keys the three directives never kept would have
NopeKeys == {"mysql_auto_increment", "mysql_data directory", "mysql_index directory"}

\* the fragments of the options lines of the call
GivenFragments == UNION { Range(given.lines[k]) : k \in DOMAIN given.lines }

\* C4: state.table_options never has a key of auto_increment, data
\* directory or index directory, and every key it has is the name of the
\* dialect, an underscore and a registered directive in lower case
NopeOptionsNeverStored ==
    \A key \in DOMAIN state.table_options :
        /\ key \notin NopeKeys
        /\ \E d \in Range(RegisteredDirectives) : key = dialect_name \o "_" \o LowerStr(d)

\* C4: options lines that name a directive never kept and one that is kept
NopeOptionsNeverStored_witness ==
    /\ Done
    /\ given.kind = "options"
    /\ {"AUTO_INCREMENT=5", "DATA DIRECTORY='/d'", "INDEX DIRECTORY='/i'"}
           \cap GivenFragments # {}
    /\ Len(given.lines) > 1
    /\ DOMAIN state.table_options = {"mysql_engine"}

\* the state a call starts from
IsFresh(s, cs) ==
    /\ s.columns = <<>> /\ s.keys = <<>> /\ s.fk_constraints = <<>>
    /\ s.ck_constraints = <<>> /\ s.table_options = EmptyDict /\ s.table_name = None
    /\ s.charset = cs

\* C5: calls of the same text and charset return equal results whatever
\* was parsed in between; a call starts from a new ReflectedState, and no
\* step changes the parser or a result returned before
ParseDeterministic ==
    /\ [](\A i, j \in DOMAIN returned :
            (/\ returned[i].show_create = returned[j].show_create
             /\ returned[i].charset = returned[j].charset)
            => /\ returned[i].state = returned[j].state
               /\ returned[i].warnings = returned[j].warnings)
    /\ [][/\ parser' = parser
          /\ Len(returned') >= Len(returned)
          /\ SubSeq(returned', 1, Len(returned)) = returned
          /\ (pc = "idle" /\ pc' = "loop" => IsFresh(state', charset'))]_vars

\* C5: the same text and charset were parsed twice, with a call of another
\* text in between, and gave columns
ParseDeterministic_witness ==
    /\ Len(returned) = 3
    /\ returned[1].show_create = returned[3].show_create
    /\ returned[1].charset = returned[3].charset
    /\ returned[2].show_create # returned[1].show_create
    /\ returned[2].state.columns # <<>>
    /\ returned[1].state.columns # <<>>
    /\ returned[1].state = returned[3].state

\* the type keyword of a type text: what comes before the arguments
RECURSIVE TypeKeyword(_)
TypeKeyword(text) ==
    IF text = "" \/ At(text, 1) \in {"(", " "} THEN ""
    ELSE At(text, 1) \o TypeKeyword(SubSeq(text, 2, Len(text)))

\* what a row says of its column being nullable
Nullable(v) == IF "bool" \in DOMAIN v THEN v.bool ELSE v.str = "YES"

\* C6: parse of the text _describe_to_create makes of a table name and of
\* rows gives the table name and, row by row and in the order of the rows,
\* a column of the name, the type keyword and the nullability of the row
RoundTrip ==
    (Done /\ given.kind = "describe") =>
        /\ state.table_name = Some(given.table_name)
        /\ Len(state.columns) = Len(given.columns)
        /\ \A k \in DOMAIN given.columns :
              /\ state.columns[k]["name"] = given.columns[k].name
              /\ state.columns[k]["type"].cls
                     = ischema_names[TypeKeyword(given.columns[k].col_type)]
              /\ state.columns[k]["nullable"] = Nullable(given.columns[k].nullable)

\* a call of one column line has returned a column
ColumnGiven == Done /\ given.kind = "column" /\ Len(state.columns) = 1

\* C7: the column is not nullable when the line has NOT NULL in upper or in
\* lower case for the notnull group, and nullable when it has NULL or
\* neither
NotNullMeansNotNullable ==
    ColumnGiven =>
        state.columns[1]["nullable"] = (LowerStr(given.notnull) # " not null")

\* C8: autoincrement is True when the line has the AUTO_INCREMENT marker,
\* False when it has none and the type is an integer type, and no key of
\* the column when it has none and the type is no integer type
AutoincrementThreeValued ==
    ColumnGiven =>
        IF given.autoincr # ""
        THEN /\ "autoincrement" \in DOMAIN state.columns[1]
             /\ state.columns[1]["autoincrement"] = TRUE
        ELSE IF IsInteger(state.columns[1]["type"].cls)
        THEN /\ "autoincrement" \in DOMAIN state.columns[1]
             /\ state.columns[1]["autoincrement"] = FALSE
        ELSE "autoincrement" \notin DOMAIN state.columns[1]

\* C8: a column of a type that is no integer type, without the marker
AutoincrementThreeValued_witness ==
    /\ ColumnGiven
    /\ given.coltype = "varchar(32)"
    /\ given.autoincr = ""
    /\ state.columns[1]["type"].cls = "VARCHAR"
    /\ "autoincrement" \notin DOMAIN state.columns[1]

\* the six rules of the classification, in their order, and their handlers
Rules(line) ==
    <<StartsWith(line, "  \""), StartsWith(line, ") "), line = ")",
      StartsWith(line, "CREATE "), line = "", TRUE>>
RuleHandlers ==
    <<"_parse_column", "_parse_table_options", "pass", "_parse_table_name", "pass",
      "_parse_constraints">>
FirstRule(line) == Min({ k \in DOMAIN RuleHandlers : Rules(line)[k] })

\* C9: the lines of the text, split at newline and at carriage return and
\* newline, are handled one by one and in order, each once and by the
\* handler of the first rule that applies to it
LinesClassified ==
    (given.kind = "lines") =>
        /\ HandledLines \o todo = given.lines
        /\ \A i \in DOMAIN log : log[i].handler = RuleHandlers[FirstRule(log[i].line)]
        /\ (pc = "idle" => todo = <<>>)

\* C9: a text of two lines ended by carriage return and newline, the line
\* of a closing parenthesis ignored and a line with a carriage return of
\* its own gone to the constraints parser
LinesClassified_witness ==
    /\ Done
    /\ show_create = ")\r\na\rb"
    /\ log = <<[line |-> ")", handler |-> "pass"],
               [line |-> "a\rb", handler |-> "_parse_constraints"]>>

\* the options a line of fragments gives: of the fragments of a directive
\* the first
RECURSIVE LineOptions(_)
LineOptions(fs) ==
    IF fs = <<>> THEN EmptyDict
    ELSE (FragmentOption[Head(fs)][1] :> FragmentOption[Head(fs)][2])
         @@ LineOptions(Tail(fs))

\* the options stored after the lines ls: those of a later line over those
\* of an earlier one, without the options never kept
RECURSIVE ExpectedOptions(_)
ExpectedOptions(ls) ==
    IF ls = <<>> THEN EmptyDict
    ELSE LET found == LineOptions(ls[Len(ls)])
             kept == { opt \in DOMAIN found : dialect_name \o "_" \o opt \notin NopeKeys }
         IN  [key \in { dialect_name \o "_" \o opt : opt \in kept } |->
                found[CHOOSE opt \in kept : dialect_name \o "_" \o opt = key]]
             @@ ExpectedOptions(SubSeq(ls, 1, Len(ls) - 1))

\* C10: the options of a line are those of its directives taken one
\* pattern after the other, each in what the earlier ones left of the line:
\* a directive inside the quoted value of another is no option
OptionsConsumedInOrder ==
    (Done /\ given.kind = "options") =>
        state.table_options = ExpectedOptions(given.lines)

\* C10: a comment whose value has the text of an ENGINE directive gave the
\* comment and no engine
OptionsConsumedInOrder_witness ==
    /\ Done
    /\ given.kind = "options"
    /\ "COMMENT='ENGINE=x'" \in GivenFragments
    /\ "mysql_comment" \in DOMAIN state.table_options
    /\ state.table_options["mysql_comment"] = "ENGINE=x"
    /\ "mysql_engine" \notin DOMAIN state.table_options

(***************************************************************************)
(* Calls of texts of column lines only: lines the full column pattern      *)
(* matches, lines only the loose pattern matches, and lines neither does   *)
(***************************************************************************)
MaxColumnLines == 2

FullColumnLines ==
    {"  \"id\" int NOT NULL AUTO_INCREMENT,", "  \"a\" varchar(32) DEFAULT NULL,",
     "  \"b\" blob"}
LooseColumnLines == {"  \"d\" decimal(10, 2) NOT NULL", "  \"g\" geometry(1,2,3)"}
UnknownColumnLines == {"  \"x\"", "  \"\" int"}
ColumnLines == FullColumnLines \cup LooseColumnLines \cup UnknownColumnLines

\* one call, of a text of up to MaxColumnLines column lines
ParseColumnLines ==
    \E ls \in SeqsUpTo(ColumnLines, MaxColumnLines) :
        /\ returned = <<>>
        /\ Begin(JoinWith("\n", ls), "utf8", [kind |-> "columns", lines |-> ls])

NextColumnLines == ParseColumnLines \/ ColumnLine \/ Return

SpecColumnLines == Init /\ [][NextColumnLines]_vars

\* the warnings a step gave, and their kinds
NewWarnings == SubSeq(warnings', Len(warnings) + 1, Len(warnings'))
WarningKinds(ws) == { ws[i][1] : i \in DOMAIN ws }
Degraded == "Incomplete reflection of column definition"
UnknownColumn == "Unknown column definition"

\* a step appended one column and kept the others
OneColumnAppended ==
    /\ Len(state'.columns) = Len(state.columns) + 1
    /\ SubSeq(state'.columns, 1, Len(state.columns)) = state.columns
    /\ [state' EXCEPT !.columns = state.columns] = state

\* C11: a line that goes to the column parser ends in one of three ways and
\* in no two of them: the full pattern matches it, and one column is
\* appended without an Incomplete reflection warning, also when the loose
\* pattern would match it too; only the loose pattern matches it, and one
\* column is appended with one Incomplete reflection warning for the line;
\* neither matches it, and an Unknown column definition warning is given
\* and the state is left as it was
ColumnLineOutcomes ==
    [][(pc = "loop" /\ todo # <<>> /\ Handler(Head(todo)) = "_parse_column") =>
         /\ Len(warnings') >= Len(warnings)
         /\ SubSeq(warnings', 1, Len(warnings)) = warnings
         /\ IF Head(todo) \in FullColumnLines
            THEN /\ OneColumnAppended
                 /\ WarningKinds(NewWarnings) \cap {Degraded, UnknownColumn} = {}
            ELSE IF Head(todo) \in LooseColumnLines
            THEN /\ OneColumnAppended
                 /\ NewWarnings # <<>>
                 /\ NewWarnings[1] = <<Degraded, Head(todo)>>
                 /\ WarningKinds(Tail(NewWarnings)) \cap {Degraded, UnknownColumn} = {}
            ELSE /\ Head(todo) \in UnknownColumnLines
                 /\ state' = state
                 /\ NewWarnings = <<<<UnknownColumn, Head(todo)>>>>]_vars

\* C11: a call of a line only the loose pattern matches and of a line both
\* patterns match returned two columns and the one warning of the first
\* line
ColumnLineOutcomes_witness ==
    /\ Done
    /\ given.kind = "columns"
    /\ given.lines = <<"  \"d\" decimal(10, 2) NOT NULL", "  \"a\" varchar(32) DEFAULT NULL,">>
    /\ ColumnNames(state.columns) = <<"d", "a">>
    /\ warnings = <<<<Degraded, "  \"d\" decimal(10, 2) NOT NULL">>>>
    /\ ReMatch(_re_column_loose, "  \"a\" varchar(32) DEFAULT NULL,").ok

=============================================================================
